---- MODULE Spec2Model ----
(***************************************************************************)
(* Model of the flyby-backend flight-search endpoint (src/server.js, the   *)
(* unified Amadeus / SerpApi server, lines 179-411): the process-wide      *)
(* token cache, the GET /amadeus/flights handler with its await points,    *)
(* and the two normalizers.                                                *)
(*                                                                         *)
(* JavaScript strings are sequences of one-character strings, so that      *)
(* toUpperCase, trim, split, parseInt and template literals are computed   *)
(* rather than assumed.  The token <<"undefined">> is the value of a       *)
(* missing property; it prints as the text "undefined" in a template       *)
(* literal, exactly as in JavaScript.                                      *)
(***************************************************************************)
EXTENDS Integers, Sequences, FiniteSets, TLC

\* ------------------------------------------------------------------ bounds
\* Number of requests in flight to the server.
NumReqs == 2
\* Last clock value (seconds) the model follows.
MaxTime == 1
\* Largest number of offers / results in one upstream document.
MaxOffers == 2

\* -------------------------------------------------------- program constants
\* Default result count: parseInt(max || '20', 10) || 20.
DefaultMax == 20
\* Result-count ceiling: Math.min(..., 50).
MaxCeiling == 50
\* Seconds before expiry at which a cached token stops being reused.
ExpiryMargin == 30

\* ----------------------------------------------------------------- strings
Undefined == <<"undefined">>
Null == <<"null">>

\* JavaScript truthiness of a string-or-missing value.
Falsy(s) == s = <<>> \/ s = Undefined \/ s = Null

\* a || b
OrElse(a, b) == IF Falsy(a) THEN b ELSE a

UpperOf ==
  [c \in {"a", "d", "l", "u", "s", "x"} |->
     CASE c = "a" -> "A" [] c = "d" -> "D" [] c = "l" -> "L"
       [] c = "u" -> "U" [] c = "s" -> "S" [] c = "x" -> "X"]

\* String.prototype.toUpperCase
ToUpperCase(s) ==
  [i \in 1..Len(s) |-> IF s[i] \in DOMAIN UpperOf THEN UpperOf[s[i]] ELSE s[i]]

RECURSIVE TrimStart(_)
TrimStart(s) ==
  IF s # <<>> /\ Head(s) = " " THEN TrimStart(Tail(s)) ELSE s

RECURSIVE TrimEnd(_)
TrimEnd(s) ==
  IF s # <<>> /\ s[Len(s)] = " " THEN TrimEnd(SubSeq(s, 1, Len(s) - 1)) ELSE s

\* String.prototype.trim
Trim(s) == TrimEnd(TrimStart(s))

\* String.prototype.split(sep): the sequence of pieces; acc is the piece
\* being read.
RECURSIVE SplitFrom(_, _, _)
SplitFrom(s, sep, acc) ==
  IF s = <<>> THEN <<acc>>
  ELSE IF Head(s) = sep THEN <<acc>> \o SplitFrom(Tail(s), sep, <<>>)
  ELSE SplitFrom(Tail(s), sep, Append(acc, Head(s)))

Split(s, sep) == SplitFrom(s, sep, <<>>)

DigitOf ==
  [c \in {"0", "1", "2", "3", "4", "5", "6", "7", "8", "9"} |->
     CASE c = "0" -> 0 [] c = "1" -> 1 [] c = "2" -> 2 [] c = "3" -> 3
       [] c = "4" -> 4 [] c = "5" -> 5 [] c = "6" -> 6 [] c = "7" -> 7
       [] c = "8" -> 8 [] c = "9" -> 9]

\* The longest prefix of s made of decimal digits.
RECURSIVE DigitPrefix(_)
DigitPrefix(s) ==
  IF s # <<>> /\ Head(s) \in DOMAIN DigitOf
    THEN <<Head(s)>> \o DigitPrefix(Tail(s))
    ELSE <<>>

RECURSIVE DigitsValue(_, _)
DigitsValue(ds, acc) ==
  IF ds = <<>> THEN acc ELSE DigitsValue(Tail(ds), 10 * acc + DigitOf[Head(ds)])

\* parseInt(s, 10): leading white space, an optional sign, then the longest
\* run of digits; NaN when there is no digit.
ParseInt(s) ==
  LET t == TrimStart(s)
      neg == t # <<>> /\ Head(t) = "-"
      u == IF t # <<>> /\ Head(t) \in {"-", "+"} THEN Tail(t) ELSE t
      ds == DigitPrefix(u)
  IN IF ds = <<>> THEN [nan |-> TRUE, val |-> 0]
     ELSE [nan |-> FALSE,
           val |-> IF neg THEN 0 - DigitsValue(ds, 0) ELSE DigitsValue(ds, 0)]

\* Number.prototype.toString of an array index (a small natural).
RECURSIVE NumToString(_)
NumToString(n) ==
  LET d == CHOOSE c \in DOMAIN DigitOf : DigitOf[c] = n % 10
  IN IF n < 10 THEN <<d>> ELSE NumToString(n \div 10) \o <<d>>

Min(a, b) == IF a < b THEN a ELSE b

\* Array.prototype.slice(0, n) for n >= 0.
Slice(s, n) == SubSeq(s, 1, Min(n, Len(s)))

\* A dictionary lookup obj[key]; a missing key reads as undefined.
Lookup(dict, key) == IF key \in DOMAIN dict THEN dict[key] ELSE Undefined

\* ---------------------------------------------------------- configuration
\* Airline fallback names (for Amadeus responses).
AIRLINE_MAP ==
  [c \in {<<"N", "K">>, <<"F", "9">>, <<"D", "L">>, <<"A", "A">>, <<"U", "A">>,
          <<"W", "N">>, <<"A", "S">>, <<"B", "6">>, <<"S", "Y">>} |->
     CASE c = <<"N", "K">> -> <<"Spirit Airlines">>
       [] c = <<"F", "9">> -> <<"Frontier Airlines">>
       [] c = <<"D", "L">> -> <<"Delta Air Lines">>
       [] c = <<"A", "A">> -> <<"American Airlines">>
       [] c = <<"U", "A">> -> <<"United Airlines">>
       [] c = <<"W", "N">> -> <<"Southwest Airlines">>
       [] c = <<"A", "S">> -> <<"Alaska Airlines">>
       [] c = <<"B", "6">> -> <<"JetBlue">>
       [] c = <<"S", "Y">> -> <<"Sun Country Airlines">>]

\* ------------------------------------------------------- query parameters
\* const maxNum = Math.min(parseInt(max || '20', 10) || 20, 50);
MaxNum(max) ==
  LET p == ParseInt(OrElse(max, <<"2", "0">>))
      n == IF p.nan \/ p.val = 0 THEN DefaultMax ELSE p.val
  IN Min(n, MaxCeiling)

\* const includeSet = include
\*   ? new Set(include.split(',').map(s => s.trim().toUpperCase())) : null;
IncludeSet(include) ==
  IF Falsy(include) THEN [null |-> TRUE, elems |-> {}]
  ELSE LET parts == Split(include, ",")
       IN [null |-> FALSE,
           elems |-> {ToUpperCase(Trim(parts[i])) : i \in 1..Len(parts)}]

\* const safeCurrency = currency.toUpperCase(); with currency = 'USD' by default
SafeCurrency(currency) ==
  ToUpperCase(IF currency = Undefined THEN <<"U", "S", "D">> ELSE currency)

\* includeSet && includeSet.size > 0
FilterActive(includeSet) == ~includeSet.null /\ Cardinality(includeSet.elems) > 0

\* f => includeSet.has(f.airline.toUpperCase())
PassesInclude(includeSet, f) == ToUpperCase(f.airline) \in includeSet.elems

\* ------------------------------------------------------------- normalizers
\* seg[0] || {} : a segment none of whose properties is present.
EmptySegment ==
  [carrierCode |-> Undefined, number |-> Undefined,
   depCode |-> Undefined, depAt |-> Undefined,
   arrCode |-> Undefined, arrAt |-> Undefined]

\* The body of offers.map(offer => ...) in the Amadeus branch.  An offer is
\* [id, segments, validatingAirlineCodes, priceTotal], segments being those
\* of offer.itineraries[0]; depCode/depAt stand for departure.iataCode and
\* departure.at, arrCode/arrAt for arrival.iataCode and arrival.at.
MapAmadeusOffer(offer, carriers, safeCurrency) ==
  LET seg == offer.segments
      first == IF seg # <<>> THEN seg[1] ELSE EmptySegment
      last == IF seg # <<>> THEN seg[Len(seg)] ELSE EmptySegment
      validating == IF offer.validatingAirlineCodes # <<>>
                      THEN offer.validatingAirlineCodes[1] ELSE Undefined
      carrier == OrElse(first.carrierCode, OrElse(validating, <<>>))
      airlineName == OrElse(Lookup(carriers, carrier),
                            OrElse(Lookup(AIRLINE_MAP, carrier), carrier))
  IN [id |-> OrElse(offer.id,
                    carrier \o <<"_">> \o first.number \o <<"_">>
                      \o first.depCode \o <<"_">> \o last.arrCode),
      airline |-> carrier,
      airlineName |-> airlineName,
      flightNumber |-> carrier \o first.number,
      departureIATA |-> OrElse(first.depCode, <<>>),
      arrivalIATA |-> OrElse(last.arrCode, <<>>),
      departureTime |-> OrElse(first.depAt, Null),
      arrivalTime |-> OrElse(last.arrAt, Null),
      price |-> IF Falsy(offer.priceTotal) THEN Null
                ELSE safeCurrency \o <<" ">> \o offer.priceTotal]

\* let flights = offers.map(...) over raw.data || []
MapAmadeus(raw, safeCurrency) ==
  [i \in 1..Len(raw.data) |->
     MapAmadeusOffer(raw.data[i], raw.carriers, safeCurrency)]

\* The Amadeus branch after the upstream document is parsed: map, then the
\* include filter; the list is not sliced.
FlattenAmadeus(raw, safeCurrency, includeSet) ==
  LET flights == MapAmadeus(raw, safeCurrency)
  IN IF FilterActive(includeSet)
       THEN SelectSeq(flights, LAMBDA f : PassesInclude(includeSet, f))
       ELSE flights

\* Array.isArray(x) ? x : nothing pushed
ArrayOrEmpty(x) == IF x.isArray THEN x.items ELSE <<>>

\* The body of flightsRaw.map((f, idx) => ...) in flattenSerpApi; idx is
\* the 0-based array index.  A result is [flights, price, booking_token].
MapSerpResult(f, idx, currency) ==
  LET segments == f.flights
      first == IF segments # <<>> THEN segments[1] ELSE EmptySegment
      last == IF segments # <<>> THEN segments[Len(segments)] ELSE first
      airlineCode == ToUpperCase(OrElse(first.carrierCode, <<>>))
      number == OrElse(first.number, <<>>)
      depId == OrElse(first.depCode, <<>>)
      arrId == OrElse(last.arrCode, <<>>)
  IN [id |-> OrElse(f.booking_token,
                    airlineCode \o <<"_">> \o number \o <<"_">> \o depId
                      \o <<"_">> \o arrId \o <<"_">> \o NumToString(idx)),
      airline |-> airlineCode,
      airlineName |-> airlineCode,
      flightNumber |-> IF airlineCode # <<>> /\ number # <<>>
                         THEN airlineCode \o number ELSE number,
      departureIATA |-> depId,
      arrivalIATA |-> arrId,
      departureTime |-> OrElse(first.depAt, Null),
      arrivalTime |-> OrElse(last.arrAt, Null),
      price |-> IF Falsy(f.price) THEN Null
                ELSE ToUpperCase(currency) \o <<" ">> \o f.price]

\* flightsRaw (best_flights then other_flights) mapped to flight records.
MapSerpApi(json, currency) ==
  LET flightsRaw == ArrayOrEmpty(json.best_flights)
                      \o ArrayOrEmpty(json.other_flights)
  IN [i \in 1..Len(flightsRaw) |-> MapSerpResult(flightsRaw[i], i - 1, currency)]

\* Mutant of FlattenSerpApi: the list is sliced before the include filter.
FlattenSerpApi_sliceFirst(json, currency, max, includeFilter) ==
  LET flights == MapSerpApi(json, currency)
      sliced == IF max > 0 THEN Slice(flights, max) ELSE flights
  IN IF FilterActive(includeFilter)
       THEN SelectSeq(sliced, LAMBDA f : PassesInclude(includeFilter, f))
       ELSE sliced

\* flattenSerpApi(json, currency, max, includeFilter); max is always the
\* number maxNum here, so typeof max === 'number' && !isNaN(max) holds.
FlattenSerpApi(json, currency, max, includeFilter) ==
  LET flights == MapSerpApi(json, currency)
      filtered == IF FilterActive(includeFilter)
                    THEN SelectSeq(flights, LAMBDA f : PassesInclude(includeFilter, f))
                    ELSE flights
  IN IF max > 0 THEN Slice(filtered, max) ELSE filtered

\* ------------------------------------------------------------------ state
Reqs == 1..NumReqs

VARIABLES
  env,          \* PROVIDER and which credentials process.env holds
  upstreamDoc,  \* the document the selected provider answers a search with
  inbox,        \* req.query of each request in flight to the server
  now,          \* Math.floor(Date.now() / 1000)
  cachedToken,  \* let cachedToken
  tokenExpiry,  \* let tokenExpiry
  grants,       \* history: [token, expiry] of every successful grant
  pc,           \* where each request's handler is
  token,        \* the handler's const token
  up,           \* history: what the upstream answered to each request
  grantCalls,   \* history: token-grant fetches issued for each request
  searchCalls,  \* history: flight-search fetches issued for each request
  responses,    \* history: responses emitted for each request
  resp          \* the response emitted: status, body keys, flights

vars == <<env, upstreamDoc, inbox, now, cachedToken, tokenExpiry, grants,
          pc, token, up, grantCalls, searchCalls, responses, resp>>

\* let cachedToken = null
NoToken == <<"null">>
NoRequest == [absent |-> TRUE]
NoResponse == [status |-> 0, keys |-> {}, flights |-> <<>>]
NoAnswer == [kind |-> "none", status |-> 0, readable |-> TRUE]

\* ----------------------------------------------------------------- inputs
Str(word) == <<word>>

Seg(carrier, number, dep, arr) ==
  [carrierCode |-> carrier, number |-> number,
   depCode |-> dep, depAt |-> <<"T1">>, arrCode |-> arr, arrAt |-> <<"T2">>]

\* Amadeus offers, without their id.
AmadeusOffers ==
  { [segments |-> <<Seg(<<"D", "L">>, Str("1"), Str("JFK"), Str("LAX"))>>,
     validatingAirlineCodes |-> <<<<"D", "L">>>>, priceTotal |-> Str("99")],
    [segments |-> <<Seg(Undefined, Str("1"), Str("JFK"), Str("LAX"))>>,
     validatingAirlineCodes |-> <<<<"d", "l">>>>, priceTotal |-> Undefined],
    [segments |-> <<Seg(<<"A", "A">>, Str("2"), Str("JFK"), Str("ORD")),
                    Seg(<<"A", "A">>, Str("3"), Str("ORD"), Str("LAX"))>>,
     validatingAirlineCodes |-> <<>>, priceTotal |-> Str("150")],
    [segments |-> <<>>, validatingAirlineCodes |-> <<>>, priceTotal |-> Undefined] }

\* SerpApi results, without their booking token.
SerpResults ==
  { [flights |-> <<Seg(<<"d", "l">>, Str("100"), Str("JFK"), Str("LAX"))>>,
     price |-> Str("200")],
    [flights |-> <<Seg(<<"A", "A">>, Str("2"), Str("JFK"), Str("ORD")),
                   Seg(<<"A", "A">>, Str("3"), Str("ORD"), Str("LAX"))>>,
     price |-> Undefined],
    [flights |-> <<>>, price |-> Undefined] }

SeqsUpTo(S, n) == UNION {[1..k -> S] : k \in 0..n}

\* The provider gives the offers it identifies distinct ids: the id of the
\* offer at position i, when it has one, is the text of i.
WithIds(offers, hasId) ==
  [i \in 1..Len(offers) |->
     [id |-> IF hasId[i] THEN NumToString(i) ELSE Undefined,
      segments |-> offers[i].segments,
      validatingAirlineCodes |-> offers[i].validatingAirlineCodes,
      priceTotal |-> offers[i].priceTotal]]

WithTokens(results, hasToken) ==
  [i \in 1..Len(results) |->
     [booking_token |-> IF hasToken[i] THEN <<"tok">> \o NumToString(i) ELSE Undefined,
      flights |-> results[i].flights,
      price |-> results[i].price]]

AmadeusDocs ==
  { [carriers |-> d, data |-> WithIds(offers, hasId)] :
      d \in {[c \in {<<"A", "A">>} |-> Str("American")]},
      offers \in SeqsUpTo(AmadeusOffers, MaxOffers),
      hasId \in {[i \in 1..MaxOffers |-> b] : b \in BOOLEAN} }

SerpDocs ==
  { [best_flights |-> [isArray |-> k > 0,
                       items |-> SubSeq(WithTokens(rs, hasTok), 1, Min(k, Len(rs)))],
     other_flights |-> [isArray |-> TRUE,
                        items |-> SubSeq(WithTokens(rs, hasTok),
                                         Min(k, Len(rs)) + 1, Len(rs))]] :
      rs \in SeqsUpTo(SerpResults, MaxOffers),
      hasTok \in {[i \in 1..MaxOffers |-> b] : b \in BOOLEAN},
      k \in 0..1 }

\* req.query: a parameter the client left out is Undefined.
Query(origin, destination, date, max, include, currency) ==
  [origin |-> origin, destination |-> destination, date |-> date,
   returnDate |-> Undefined, currency |-> currency, max |-> max,
   include |-> include]

\* Queries that differ in which required parameter is there.
PlainQueries ==
  { Query(Str("JFK"), Str("LAX"), Str("2025-06-01"), Undefined, Undefined, Undefined),
    Query(Undefined, Str("LAX"), Str("2025-06-01"), Undefined, Undefined, Undefined),
    Query(Str("JFK"), Undefined, Str("2025-06-01"), Undefined, Undefined, Undefined),
    Query(Str("JFK"), Str("LAX"), <<>>, Undefined, Undefined, Undefined) }

MaxInputs ==
  { Undefined, <<"1">>, <<"0">>, <<"-", "1">>, <<"x">>, <<" ", "2", "x">>, <<"6", "0">> }

IncludeInputs ==
  { Undefined, <<"d", "l">>, <<"A", "A", ",", " ", "d", "l", " ">>, <<",">> }

\* Complete queries that differ in max, include and currency.
ShapedQueries ==
  { Query(Str("JFK"), Str("LAX"), Str("2025-06-01"), m, i, Undefined) :
      m \in MaxInputs, i \in IncludeInputs }
  \cup { Query(Str("JFK"), Str("LAX"), Str("2025-06-01"), <<"1">>, <<"d", "l">>,
               <<"u", "s", "d">>) }

Providers == {"amadeus", "serpapi", "sabre"}

Envs ==
  [PROVIDER : Providers, CLIENT_ID : BOOLEAN, CLIENT_SECRET : BOOLEAN,
   SERPAPI_KEY : BOOLEAN]

\* No provider is called under an unknown PROVIDER.
NoDoc == [none |-> TRUE]

\* What a search of the selected provider answers with.
DocsOf(provider) ==
  CASE provider = "amadeus" -> AmadeusDocs
    [] provider = "serpapi" -> SerpDocs
    [] OTHER -> {NoDoc}

\* One document of each provider: a single Delta flight.
SampleDoc(provider) ==
  CASE provider = "amadeus" ->
         CHOOSE d \in AmadeusDocs :
           /\ Len(d.data) = 1
           /\ d.data[1].id # Undefined
           /\ d.data[1].priceTotal = Str("99")
    [] provider = "serpapi" ->
         CHOOSE d \in SerpDocs :
           /\ d.best_flights.isArray
           /\ Len(d.best_flights.items) = 1
           /\ d.best_flights.items[1].price = Str("200")
           /\ d.best_flights.items[1].booking_token = Undefined
           /\ Len(d.other_flights.items) = 0
    [] OTHER -> NoDoc

\* access_token of a grant response: the k-th successful grant of the run
\* hands out the k-th token, so no two grants hand out the same one.
TokenNo(k) == <<"tok">> \o NumToString(k)
Tokens == {TokenNo(k) : k \in 1..NumReqs}

\* expires_in of a grant response.
Lifetimes == {ExpiryMargin, ExpiryMargin + 1}

\* Non-success statuses of the grant and of the search.
GrantErrors == {401}
SearchErrors == {429}

TypeOK ==
  /\ env \in Envs
  /\ now \in 0..MaxTime
  /\ cachedToken \in Tokens \cup {NoToken}
  /\ tokenExpiry \in 0..(MaxTime + ExpiryMargin + 1)
  /\ pc \in [Reqs -> {"new", "awaitGrant", "awaitSearch", "responded"}]
  /\ token \in [Reqs -> Tokens \cup {NoToken}]
  /\ grantCalls \in [Reqs -> Nat]
  /\ searchCalls \in [Reqs -> Nat]
  /\ responses \in [Reqs -> Nat]

\* The state after the module is loaded at clock value t: nothing cached, no
\* handler started.
Loaded(t) ==
  /\ now = t
  /\ cachedToken = NoToken
  /\ tokenExpiry = 0
  /\ grants = {}
  /\ pc = [r \in Reqs |-> "new"]
  /\ token = [r \in Reqs |-> NoToken]
  /\ up = [r \in Reqs |-> [grant |-> NoAnswer, search |-> NoAnswer]]
  /\ grantCalls = [r \in Reqs |-> 0]
  /\ searchCalls = [r \in Reqs |-> 0]
  /\ responses = [r \in Reqs |-> 0]
  /\ resp = [r \in Reqs |-> NoResponse]

\* Every request in flight, any configuration, one fixed upstream document.
Init ==
  /\ Loaded(0)
  /\ env \in Envs
  /\ upstreamDoc = SampleDoc(env.PROVIDER)
  /\ inbox \in [Reqs -> PlainQueries]

\* One complete request with any max and include, every credential set, any
\* upstream document; the other requests are never sent.
InitShaped ==
  /\ Loaded(0)
  /\ env \in {e \in Envs : /\ e.PROVIDER \in {"amadeus", "serpapi"}
                          /\ e.CLIENT_ID /\ e.CLIENT_SECRET /\ e.SERPAPI_KEY}
  /\ upstreamDoc \in DocsOf(env.PROVIDER)
  /\ inbox \in {[r \in Reqs |-> IF r = 1 THEN q ELSE NoRequest] : q \in ShapedQueries}

\* Every request in flight, complete or without its date, the selected
\* provider configured, the server loaded one second before the last clock
\* value the model follows.
InitLive ==
  /\ Loaded(MaxTime - 1)
  /\ env \in {e \in Envs : /\ e.PROVIDER \in {"amadeus", "serpapi"}
                          /\ e.CLIENT_ID /\ e.CLIENT_SECRET /\ e.SERPAPI_KEY}
  /\ upstreamDoc = SampleDoc(env.PROVIDER)
  /\ inbox \in [Reqs -> {q \in PlainQueries :
                           ~Falsy(q.origin) /\ ~Falsy(q.destination)}]

\* ---------------------------------------------------------------- actions
\* Mutant of CacheValid: a token is given up one second too early.
CacheValid_wideMargin(tok, expiry, t) ==
  ~Falsy(tok) /\ t < expiry - ExpiryMargin - 1

\* Mutant of CacheValid: a token is reused up to its expiry.
CacheValid_noMargin(tok, expiry, t) == ~Falsy(tok) /\ t < expiry

\* if (cachedToken && now < tokenExpiry - 30)
CacheValid(tok, expiry, t) == ~Falsy(tok) /\ t < expiry - ExpiryMargin

\* tokenExpiry = Math.floor(Date.now() / 1000) + json.expires_in
ComputeExpiry(t, expiresIn) == t + expiresIn

\* res.status(status).json(body): the handler emits a response and returns.
Respond(r, status, keys, flights) ==
  /\ pc' = [pc EXCEPT ![r] = "responded"]
  /\ resp' = [resp EXCEPT ![r] = [status |-> status, keys |-> keys, flights |-> flights]]
  /\ responses' = [responses EXCEPT ![r] = @ + 1]

\* Mutant of IssueSearch: searches share one connection, so a search is
\* issued only when no other request waits for the answer to one.
IssueSearch_oneAtATime(r) ==
  /\ \A other \in Reqs \ {r} : pc[other] # "awaitSearch"
  /\ pc' = [pc EXCEPT ![r] = "awaitSearch"]
  /\ searchCalls' = [searchCalls EXCEPT ![r] = @ + 1]
  /\ UNCHANGED <<resp, responses>>

\* fetch(url) of the flight search is issued and awaited.
IssueSearch(r) ==
  /\ pc' = [pc EXCEPT ![r] = "awaitSearch"]
  /\ searchCalls' = [searchCalls EXCEPT ![r] = @ + 1]
  /\ UNCHANGED <<resp, responses>>

\* fetch(url) of the client-credentials grant is issued and awaited.
IssueGrant(r) ==
  /\ pc' = [pc EXCEPT ![r] = "awaitGrant"]
  /\ grantCalls' = [grantCalls EXCEPT ![r] = @ + 1]
  /\ UNCHANGED <<resp, responses, searchCalls, token>>

\* Mutant of MissingRequired: the date is not looked at.
MissingRequired_noDate(q) == Falsy(q.origin) \/ Falsy(q.destination)

\* if (!origin || !destination || !date)
MissingRequired(q) == Falsy(q.origin) \/ Falsy(q.destination) \/ Falsy(q.date)

\* The handler from the arrival of the request to its first awaited fetch
\* (or to its response): validation, the provider branch, the credential
\* checks and the synchronous part of getToken().  When getToken() returns
\* the cached token, its promise is already resolved and the handler goes on
\* to the search fetch without any state of the process changing in between,
\* so both are one step.  The credential test inside getToken() (line 229)
\* repeats the handler's own and cannot fail after it.
Start(r) ==
  /\ pc[r] = "new"
  /\ inbox[r] # NoRequest
  /\ LET q == inbox[r] IN
       IF MissingRequired(q)
         THEN /\ Respond(r, 400, {"error"}, <<>>)
              /\ UNCHANGED <<token, grantCalls, searchCalls>>
       ELSE IF env.PROVIDER = "amadeus"
         THEN IF ~env.CLIENT_ID \/ ~env.CLIENT_SECRET
                THEN /\ Respond(r, 500, {"error", "detail"}, <<>>)
                     /\ UNCHANGED <<token, grantCalls, searchCalls>>
              ELSE IF CacheValid(cachedToken, tokenExpiry, now)
                THEN /\ token' = [token EXCEPT ![r] = cachedToken]
                     /\ IssueSearch(r)
                     /\ UNCHANGED grantCalls
              ELSE IssueGrant(r)
       ELSE IF env.PROVIDER = "serpapi"
         THEN IF ~env.SERPAPI_KEY
                THEN /\ Respond(r, 500, {"error", "detail"}, <<>>)
                     /\ UNCHANGED <<token, grantCalls, searchCalls>>
              ELSE /\ IssueSearch(r)
                   /\ UNCHANGED <<token, grantCalls>>
       ELSE /\ Respond(r, 500, {"error"}, <<>>)
            /\ UNCHANGED <<token, grantCalls, searchCalls>>
  /\ UNCHANGED <<env, upstreamDoc, inbox, now, cachedToken, tokenExpiry,
                 grants, up>>

\* The grant answers with a success status and a JSON body: getToken()
\* stores the token and its expiry, returns, and the handler issues the search.
GrantOk(r) ==
  /\ pc[r] = "awaitGrant"
  /\ \E tok \in {TokenNo(Cardinality(grants) + 1)}, expiresIn \in Lifetimes :
       /\ cachedToken' = tok
       /\ tokenExpiry' = ComputeExpiry(now, expiresIn)
       /\ grants' = grants \cup {[token |-> tok, expiry |-> now + expiresIn]}
       /\ token' = [token EXCEPT ![r] = tok]
  /\ up' = [up EXCEPT ![r].grant = [kind |-> "ok", status |-> 200, readable |-> TRUE]]
  /\ IssueSearch(r)
  /\ UNCHANGED <<env, upstreamDoc, inbox, now, grantCalls>>

\* Mutant of GrantFail: a failed grant also drops the cached token.
GrantFail_clearsCache(r) ==
  /\ pc[r] = "awaitGrant"
  /\ \E answer \in {[kind |-> "status", status |-> s, readable |-> TRUE] :
                        s \in GrantErrors} :
       up' = [up EXCEPT ![r].grant = answer]
  /\ cachedToken' = NoToken
  /\ tokenExpiry' = 0
  /\ Respond(r, 500, {"error", "detail"}, <<>>)
  /\ UNCHANGED <<env, upstreamDoc, inbox, now, grants, token, grantCalls, searchCalls>>

\* The grant answers with a non-success status, or the fetch (or the reading
\* of its body) throws: getToken() throws and the handler's catch answers 500.
GrantFail(r) ==
  /\ pc[r] = "awaitGrant"
  /\ \E answer \in {[kind |-> "status", status |-> s, readable |-> TRUE] :
                        s \in GrantErrors}
                     \cup {[kind |-> "thrown", status |-> 0, readable |-> FALSE]} :
       up' = [up EXCEPT ![r].grant = answer]
  /\ Respond(r, 500, {"error", "detail"}, <<>>)
  /\ UNCHANGED <<env, upstreamDoc, inbox, now, cachedToken, tokenExpiry,
                 grants, token, grantCalls, searchCalls>>

\* The flights of a successful response for query q and upstream document doc.
Normalize(q, doc) ==
  IF env.PROVIDER = "amadeus"
    THEN FlattenAmadeus(doc, SafeCurrency(q.currency), IncludeSet(q.include))
    ELSE FlattenSerpApi(doc, SafeCurrency(q.currency), MaxNum(q.max),
                        IncludeSet(q.include))

\* The search answers with a success status and a JSON document: the handler
\* normalizes it and answers { count, flights }.
SearchOk(r) ==
  /\ pc[r] = "awaitSearch"
  /\ up' = [up EXCEPT ![r].search = [kind |-> "ok", status |-> 200, readable |-> TRUE]]
  /\ Respond(r, 200, {"count", "flights"}, Normalize(inbox[r], upstreamDoc))
  /\ UNCHANGED <<env, upstreamDoc, inbox, now, cachedToken, tokenExpiry,
                 grants, token, grantCalls, searchCalls>>

\* The status the handler answers with when the search did not succeed;
\* answer.readable tells whether the body of the upstream response can be read.
\* Amadeus branch: the upstream status, unless reading the body throws.
\* SerpApi branch: searchSerpApi throws an Error and the catch answers 500.
FailureStatus(provider, answer) ==
  IF provider = "amadeus" /\ answer.kind = "status" /\ answer.readable
    THEN answer.status
    ELSE 500

\* Mutant of SearchFail: a failed search is issued again.
SearchFail_retry(r) ==
  /\ pc[r] = "awaitSearch"
  /\ \E answer \in {[kind |-> "status", status |-> s, readable |-> TRUE] :
                        s \in SearchErrors} :
       up' = [up EXCEPT ![r].search = answer]
  /\ searchCalls' = [searchCalls EXCEPT ![r] = @ + 1]
  /\ UNCHANGED <<env, upstreamDoc, inbox, now, cachedToken, tokenExpiry, grants,
                 pc, token, grantCalls, responses, resp>>

\* The search answers with a non-success status, or the fetch (or the parsing
\* of its body) throws.
SearchFail(r) ==
  /\ pc[r] = "awaitSearch"
  /\ \E answer \in {[kind |-> "status", status |-> s, readable |-> b] :
                        s \in SearchErrors, b \in BOOLEAN}
                     \cup {[kind |-> "thrown", status |-> 0, readable |-> FALSE]} :
       /\ up' = [up EXCEPT ![r].search = answer]
       /\ Respond(r, FailureStatus(env.PROVIDER, answer), {"error", "detail"}, <<>>)
  /\ UNCHANGED <<env, upstreamDoc, inbox, now, cachedToken, tokenExpiry,
                 grants, token, grantCalls, searchCalls>>

\* A second passes.
Tick ==
  /\ now < MaxTime
  /\ now' = now + 1
  /\ UNCHANGED <<env, upstreamDoc, inbox, cachedToken, tokenExpiry, grants,
                 pc, token, up, grantCalls, searchCalls, responses, resp>>

Next ==
  \/ \E r \in Reqs : Start(r)
  \/ \E r \in Reqs : GrantOk(r)
  \/ \E r \in Reqs : GrantFail(r)
  \/ \E r \in Reqs : SearchOk(r)
  \/ \E r \in Reqs : SearchFail(r)
  \/ Tick

Spec == Init /\ [][Next]_vars

\* One request whose max, include and upstream document vary.
ShapedSpec == InitShaped /\ [][Next]_vars

\* The request whose upstream calls may never be answered.
Hung == CHOOSE r \in Reqs : \A other \in Reqs : r <= other

\* The server runs the handler of every request that arrives, and every
\* upstream call of every request but Hung is eventually answered; a call of
\* Hung may stay unanswered for ever.
LiveSpec ==
  /\ InitLive
  /\ [][Next]_vars
  /\ \A r \in Reqs \ {Hung} :
       /\ WF_vars(Start(r))
       /\ WF_vars(GrantOk(r) \/ GrantFail(r) \/ SearchOk(r) \/ SearchFail(r))

\* ----------------------------------------------------------------- claims
Sent(r) == inbox[r] # NoRequest

\* origin, destination or date is absent from the query of request r.
LacksRequired(r) ==
  \E p \in {inbox[r].origin, inbox[r].destination, inbox[r].date} :
    p \in {Undefined, <<>>}

Responded(r) == pc[r] = "responded"

Failed(answer) == answer.kind \in {"status", "thrown"}

\* C1: a request that lacks origin, destination or date is answered 400 with
\* an error message, and neither a token grant nor a flight search is ever
\* issued for it, under every provider configuration and every cache state.
C1_MissingParamsRejected ==
  \A r \in Reqs :
    (Sent(r) /\ LacksRequired(r)) =>
      /\ grantCalls[r] = 0
      /\ searchCalls[r] = 0
      /\ pc[r] \in {"new", "responded"}
      /\ Responded(r) => (resp[r].status = 400 /\ "error" \in resp[r].keys)

\* A request lacking a parameter was answered while a token is cached.
C1_Witness ==
  \E r \in Reqs :
    /\ Sent(r) /\ LacksRequired(r) /\ Responded(r)
    /\ cachedToken # NoToken
    /\ env.PROVIDER = "amadeus"

\* C2: when the search of the selected provider (Amadeus or SerpApi) answers
\* with a non-success status whose body can be read, the response carries
\* that status and an { error, detail } body.
C2_UpstreamStatusMirrored ==
  \A r \in Reqs :
    (Responded(r) /\ up[r].search.kind = "status" /\ up[r].search.readable) =>
      /\ resp[r].status = up[r].search.status
      /\ resp[r].keys = {"error", "detail"}

\* The requested count when max is a positive number, the default otherwise.
RequestedOrDefault(max) ==
  LET p == ParseInt(IF max \in {Undefined, <<>>} THEN <<>> ELSE max)
  IN IF p.nan \/ p.val <= 0 THEN DefaultMax ELSE p.val

\* The normalized candidate records of request r: the upstream document
\* mapped to flight records, before filtering and truncation.
Candidates(r) ==
  IF env.PROVIDER = "amadeus"
    THEN MapAmadeus(upstreamDoc, SafeCurrency(inbox[r].currency))
    ELSE MapSerpApi(upstreamDoc, SafeCurrency(inbox[r].currency))

Succeeded(r) == Responded(r) /\ resp[r].status = 200

\* C3: the number of flights of a successful response exceeds neither
\* min(requested-or-default, 50) nor the number of normalized candidates.
C3_CountWithinMax ==
  \A r \in Reqs :
    Succeeded(r) =>
      /\ Len(resp[r].flights) <= Min(RequestedOrDefault(inbox[r].max), MaxCeiling)
      /\ Len(resp[r].flights) <= Len(Candidates(r))

\* The airline code is, case-insensitively, one of the comma-separated codes
\* of the include parameter.
Allowed(airline, include) ==
  LET parts == Split(include, ",")
  IN \E i \in 1..Len(parts) : ToUpperCase(Trim(parts[i])) = ToUpperCase(airline)

\* The candidates of request r whose airline the include list allows, in
\* their original order.
AllowedCandidates(r) ==
  SelectSeq(Candidates(r), LAMBDA f : Allowed(f.airline, inbox[r].include))

IsPrefix(s, t) == Len(s) <= Len(t) /\ s = SubSeq(t, 1, Len(s))

HasInclude(r) == inbox[r].include \notin {Undefined, <<>>}

\* C4: with a non-empty include list, every flight of a successful response
\* has an allowed airline code, and the flights are the allowed candidates
\* in their original order, either all of them or the first maxNum of them
\* (filter after mapping, truncation after the filter).
C4_IncludeFilter ==
  \A r \in Reqs :
    (Succeeded(r) /\ HasInclude(r)) =>
      /\ \A i \in 1..Len(resp[r].flights) :
           Allowed(resp[r].flights[i].airline, inbox[r].include)
      /\ IsPrefix(resp[r].flights, AllowedCandidates(r))
      /\ \/ resp[r].flights = AllowedCandidates(r)
         \/ Len(resp[r].flights) =
              Min(RequestedOrDefault(inbox[r].max), MaxCeiling)

\* A response whose include list, written in lower case, kept a candidate
\* and dropped another.
C4_Witness ==
  \E r \in Reqs :
    /\ Succeeded(r)
    /\ inbox[r].include = <<"d", "l">>
    /\ Len(resp[r].flights) >= 1
    /\ Len(resp[r].flights) < Len(Candidates(r))
    /\ resp[r].flights = AllowedCandidates(r)

\* C5: the ids of the flights of a successful response are pairwise distinct.
C5_IdsDistinct ==
  \A r \in Reqs :
    Succeeded(r) =>
      \A i, j \in 1..Len(resp[r].flights) :
        i # j => resp[r].flights[i].id # resp[r].flights[j].id

\* Request r passes validation and the credential check of the Amadeus
\* branch, so its handler calls getToken().
CallsGetToken(r) ==
  /\ Sent(r) /\ ~LacksRequired(r)
  /\ env.PROVIDER = "amadeus" /\ env.CLIENT_ID /\ env.CLIENT_SECRET

\* C6: a call of getToken() made while the cached token is more than 30
\* seconds before its expiry issues no grant, returns the cached token and
\* leaves cachedToken and tokenExpiry as they are.
C6_TokenReuse ==
  [][\A r \in Reqs :
       (/\ pc[r] = "new" /\ pc'[r] # "new"
        /\ CallsGetToken(r)
        /\ cachedToken # NoToken
        /\ now < tokenExpiry - 30)
       => (/\ grantCalls'[r] = grantCalls[r]
           /\ token'[r] = cachedToken
           /\ cachedToken' = cachedToken
           /\ tokenExpiry' = tokenExpiry)]_vars

\* One request fetched a token and another got the same token without a grant.
C6_Witness ==
  \E r1, r2 \in Reqs :
    /\ r1 # r2
    /\ grantCalls[r1] = 1 /\ up[r1].grant.kind = "ok"
    /\ grantCalls[r2] = 0
    /\ token[r2] # NoToken /\ token[r2] = token[r1]

\* C7: when the grant answers with a non-success status, cachedToken and
\* tokenExpiry keep their values and the request ends with a 500 response,
\* no flight search being issued for it.
C7_FailedGrantKeepsCache ==
  [][\A r \in Reqs :
       (pc[r] = "awaitGrant" /\ up'[r].grant.kind = "status")
       => (/\ cachedToken' = cachedToken
           /\ tokenExpiry' = tokenExpiry
           /\ pc'[r] = "responded"
           /\ resp'[r].status = 500
           /\ responses'[r] = responses[r] + 1
           /\ searchCalls'[r] = 0)]_vars

\* A refresh of an expired token was refused and the expired token is still
\* the cached one.
C7_Witness ==
  \E r \in Reqs :
    /\ up[r].grant.kind = "status"
    /\ Responded(r)
    /\ cachedToken # NoToken
    /\ ~(now < tokenExpiry - 30)

\* C8: under every interleaving, cachedToken and tokenExpiry are the token
\* and the expiry of one and the same successful grant, and a token is
\* handed out from the cache only while the clock is more than 30 seconds
\* before the expiry computed from that token's grant response.
C8_CacheConsistent ==
  /\ [](cachedToken # NoToken =>
          [token |-> cachedToken, expiry |-> tokenExpiry] \in grants)
  /\ [][\A r \in Reqs :
          (pc[r] = "new" /\ pc'[r] = "awaitSearch" /\ env.PROVIDER = "amadeus")
          => (/\ grantCalls'[r] = 0
              /\ \E g \in grants : g.token = token'[r] /\ now < g.expiry - 30)]_vars

\* Two requests refreshed during the same window and both grants succeeded.
C8_Witness ==
  \E r1, r2 \in Reqs :
    /\ r1 # r2
    /\ up[r1].grant.kind = "ok" /\ up[r2].grant.kind = "ok"
    /\ token[r1] # token[r2]
    /\ Cardinality(grants) = 2
    /\ cachedToken = token[r2]

\* C9: a request issues at most one grant and at most one search, and once
\* an upstream call of it has failed it has been answered with an error and
\* has issued no call beyond the failed one.
C9_NoRetries ==
  \A r \in Reqs :
    /\ grantCalls[r] <= 1
    /\ searchCalls[r] <= 1
    /\ Failed(up[r].grant) =>
         (Responded(r) /\ resp[r].status >= 400 /\ searchCalls[r] = 0)
    /\ Failed(up[r].search) =>
         (Responded(r) /\ resp[r].status >= 400 /\ up[r].grant.kind \in {"none", "ok"})

\* A request whose grant succeeded and whose search failed.
C9_Witness ==
  \E r \in Reqs :
    /\ up[r].grant.kind = "ok"
    /\ up[r].search.kind = "status"
    /\ grantCalls[r] = 1 /\ searchCalls[r] = 1
    /\ Responded(r)

\* C10: a request whose own upstream calls are answered is eventually
\* answered with exactly one response, whether or not the calls of request
\* Hung are ever answered, and no request emits a second response.
C10_HungCallBlocksOnlyItself ==
  /\ \A r \in Reqs \ {Hung} :
       Sent(r) ~> (Responded(r) /\ responses[r] = 1)
  /\ [](\A r \in Reqs : responses[r] <= 1)
  /\ [](\A r \in Reqs : Responded(r) => responses[r] = 1)

\* A request that arrived after Hung issued its search was answered after
\* its own search, while Hung still waits.
C10_Witness ==
  \E r \in Reqs \ {Hung} :
    /\ Responded(r) /\ responses[r] = 1
    /\ up[r].search.kind = "ok"
    /\ pc[Hung] = "awaitSearch"

====
